---- MODULE Spec2Model ----
(***************************************************************************)
(* Model of the MoleculeLedger backend: module loading (app/main.py,       *)
(* app/core/security.py), the in-memory account directory and the          *)
(* register / login / token flows (app/services/auth_service.py,           *)
(* app/api/v1/auth_routes.py).                                             *)
(*                                                                         *)
(* Optional values (Python None or a value) are sequences of length 0 or 1.*)
(* Time is counted in minutes.                                             *)
(***************************************************************************)
EXTENDS Integers, Sequences, FiniteSets, TLC

VARIABLES
    environ,            \* os.environ after load_dotenv(): the two settings read
    main_module,        \* app.main: "unloaded", "serving" or "aborted"
    security_module,    \* app.core.security: "unloaded", "loaded" or "aborted"
    fake_users_db,      \* auth_service.fake_users_db: email -> user record
    user_id_counter,    \* auth_service.user_id_counter
    tasks,              \* register requests: one coroutine of the event loop each
    running,            \* index of the task holding the event loop, 0 when idle
    now,                \* datetime.now(timezone.utc), in minutes
    resp,               \* the last exchange answered by login / token operations
    token,              \* the token string the client holds
    genuine             \* whether that string is exactly what the issuer returned

vars == <<environ, main_module, security_module, fake_users_db, user_id_counter,
          tasks, running, now, resp, token, genuine>>

\* ---------------------------------------------------------------- bounds
MaxTasks == 2
MaxNow == 3

Emails == {"a@x.com", "b@x.com"}
Passwords == {"pw1", "pw2"}
Salts == {"s1", "s2"}
SecretSettings == {<<>>, <<"">>, <<"k">>}
InfuraSettings == {<<>>, <<"id">>}
Deltas == {<<>>, <<-1>>, <<0>>, <<1>>}

\* ---------------------------------------------------------------- values
None == <<>>

Some(x) == <<x>>

\* Python truthiness of an optional string: None and "" are falsy.
TruthyStr(opt) == opt # None /\ opt[1] # ""

\* Python truthiness of Union[timedelta, None]: None and timedelta(0) are falsy.
TruthyDelta(opt) == opt # None /\ opt[1] # 0

\* ---------------------------------------------------------------- security.py
ALGORITHM == "HS256"

ACCESS_TOKEN_EXPIRE_MINUTES == 30

JWT_SECRET_KEY == environ.JWT_SECRET_KEY

\* pwd_context.hash: a digest of the password under a fresh salt, the salt embedded.
get_password_hash(password, salt) == [salt |-> salt, digest |-> <<salt, password>>]

\* pwd_context.verify: recompute with the embedded salt and compare.
verify_password(plain_password, hashed_password) ==
    hashed_password.digest = <<hashed_password.salt, plain_password>>

\* HMAC over the claims under the key.
Sign(claims, key) == <<ALGORITHM, claims, key>>

\* jwt.encode(to_encode, JWT_SECRET_KEY, algorithm=ALGORITHM)
jwt_encode(claims, key) == [claims |-> claims, sig |-> Sign(claims, key)]

ExpireSubtracts(expires_delta, t) ==
    IF TruthyDelta(expires_delta)
    THEN t - expires_delta[1]
    ELSE t - ACCESS_TOKEN_EXPIRE_MINUTES

\* lines 65-68: the expiry, now + expires_delta when expires_delta is truthy.
Expire(expires_delta, t) ==
    IF TruthyDelta(expires_delta)
    THEN t + expires_delta[1]
    ELSE t + ACCESS_TOKEN_EXPIRE_MINUTES

\* to_encode = data.copy(); to_encode.update({"exp": expire}); jwt.encode(...)
\* Returns the token and the caller's dict as it is after the call.
create_access_token(data, expires_delta, t) ==
    LET to_encode == [sub |-> data.sub, exp |-> Expire(expires_delta, t)]
    IN  [token |-> jwt_encode(to_encode, JWT_SECRET_KEY[1]), data |-> data]

\* ---------------------------------------------------------------- auth_service.py
\* token_expires = timedelta(minutes=30)
token_expires == 30

\* user_id_counter = 1
InitialCounter == 1

EmailNeverRegistered(db, email) == FALSE

EmailRegistered(db, email) == email \in DOMAIN db

NewUser(id, email, hashed_password) ==
    [id |-> id, email |-> email, hashed_password |-> hashed_password]

StoreUserReplacesAll(db, email, new_user) == (email :> new_user)

\* fake_users_db[user_create.email] = new_user
StoreUser(db, email, new_user) == (email :> new_user) @@ db

NextIdSame(counter) == counter

NextIdSkips(counter) == counter + 2

\* user_id_counter += 1
NextId(counter) == counter + 1

UserResponse(user) == [id |-> user.id, email |-> user.email]

SuspendsAtHash(step) == step = "hash"

\* Whether the coroutine gives the event loop back after a step: register_user
\* contains no await, so it runs from its first line to its return.
Suspends(step) == FALSE

authenticate_userNoPasswordCheck(db, user_login) ==
    IF ~EmailRegistered(db, user_login.email)
    THEN None
    ELSE Some(UserResponse(db[user_login.email]))

authenticate_userLeaks(db, user_login) ==
    IF ~EmailRegistered(db, user_login.email)
    THEN Some([id |-> 0, email |-> user_login.email])
    ELSE IF ~verify_password(user_login.password, db[user_login.email].hashed_password)
         THEN None
         ELSE Some(UserResponse(db[user_login.email]))

authenticate_user(db, user_login) ==
    IF ~EmailRegistered(db, user_login.email)
    THEN None
    ELSE IF ~verify_password(user_login.password, db[user_login.email].hashed_password)
         THEN None
         ELSE Some(UserResponse(db[user_login.email]))

create_user_access_token(user_email, t) ==
    [access_token |-> create_access_token([sub |-> user_email], Some(token_expires), t).token,
     token_type |-> "bearer"]

\* ---------------------------------------------------------------- auth_routes.py
Created(new_user) == [status |-> 201, body |-> new_user]

Conflict == [status |-> 409, detail |-> "Email already registered"]

Unauthorized ==
    [status |-> 401, detail |-> "Incorrect email or password",
     headers |-> "WWW-Authenticate: Bearer"]

\* The register route's answer for what register_user returned.
register(new_user) ==
    IF new_user = None THEN Conflict ELSE Created(new_user[1])

\* The login route.
login(db, user_login, t) ==
    LET user == authenticate_user(db, user_login)
    IN  IF user = None
        THEN Unauthorized
        ELSE [status |-> 200, body |-> create_user_access_token(user[1].email, t)]

\* ---------------------------------------------------------------- token validation
\* The validation of a presented token (Token Issuer verify): the signature is
\* checked against the signing key, then the expiry against the clock.
INVALID == "INVALID"

WellFormed(tok) == DOMAIN tok = {"claims", "sig"}

verify(tok, key, t) ==
    IF WellFormed(tok) /\ tok.sig = Sign(tok.claims, key) /\ t < tok.claims.exp
    THEN tok.claims.sub
    ELSE INVALID

\* ---------------------------------------------------------------- state machine
Init ==
    /\ environ \in [JWT_SECRET_KEY : SecretSettings, INFURA_PROJECT_ID : InfuraSettings]
    /\ main_module = "unloaded"
    /\ security_module = "unloaded"
    /\ fake_users_db = <<>>
    /\ user_id_counter = InitialCounter
    /\ tasks = <<>>
    /\ running = 0
    /\ now = 0
    /\ resp = None
    /\ token = None
    /\ genuine = FALSE

\* uvicorn app.main:app : the module body of app/main.py, then the startup event.
StartMain ==
    /\ main_module = "unloaded"
    /\ main_module' = IF TruthyStr(environ.INFURA_PROJECT_ID) THEN "serving" ELSE "aborted"
    /\ UNCHANGED <<environ, security_module, fake_users_db, user_id_counter, tasks,
                   running, now, resp, token, genuine>>

\* First import of app.core.security (through auth_service or auth_routes).
ImportSecurity ==
    /\ security_module = "unloaded"
    /\ security_module' = IF TruthyStr(environ.JWT_SECRET_KEY) THEN "loaded" ELSE "aborted"
    /\ UNCHANGED <<environ, main_module, fake_users_db, user_id_counter, tasks,
                   running, now, resp, token, genuine>>

AuthReady == security_module = "loaded"

\* An HTTP POST /auth/register arrives: its handler is scheduled on the event loop.
Submit(email, password) ==
    /\ AuthReady
    /\ Len(tasks) < MaxTasks
    /\ tasks' = Append(tasks, [email |-> email, password |-> password, pc |-> "check",
                               hashed_password |-> None, new_user |-> None,
                               response |-> None])
    /\ UNCHANGED <<environ, main_module, security_module, fake_users_db,
                   user_id_counter, running, now, resp, token, genuine>>

MayRun(i, step) ==
    /\ i \in 1..Len(tasks)
    /\ tasks[i].pc = step
    /\ running \in {0, i}

After(i, step) == IF Suspends(step) THEN 0 ELSE i

\* register_user line 34: the existence check; on a hit the route answers 409.
RegCheck(i) ==
    /\ MayRun(i, "check")
    /\ running = 0
    /\ IF EmailRegistered(fake_users_db, tasks[i].email)
       THEN /\ tasks' = [tasks EXCEPT ![i].pc = "done", ![i].response = Some(register(None))]
            /\ running' = 0
       ELSE /\ tasks' = [tasks EXCEPT ![i].pc = "hash"]
            /\ running' = After(i, "check")
    /\ UNCHANGED <<environ, main_module, security_module, fake_users_db,
                   user_id_counter, now, resp, token, genuine>>

\* register_user line 39
RegHash(i) ==
    /\ MayRun(i, "hash")
    /\ \E salt \in Salts :
         tasks' = [tasks EXCEPT ![i].pc = "insert",
                     ![i].hashed_password = Some(get_password_hash(tasks[i].password, salt))]
    /\ running' = After(i, "hash")
    /\ UNCHANGED <<environ, main_module, security_module, fake_users_db,
                   user_id_counter, now, resp, token, genuine>>

\* register_user lines 42-47
RegInsert(i) ==
    /\ MayRun(i, "insert")
    /\ LET new_user == NewUser(user_id_counter, tasks[i].email, tasks[i].hashed_password[1])
       IN  /\ fake_users_db' = StoreUser(fake_users_db, tasks[i].email, new_user)
           /\ tasks' = [tasks EXCEPT ![i].pc = "increment", ![i].new_user = Some(new_user)]
    /\ running' = After(i, "insert")
    /\ UNCHANGED <<environ, main_module, security_module, user_id_counter, now, resp,
                   token, genuine>>

\* register_user lines 48-51 and the route's 201 answer
RegIncrement(i) ==
    /\ MayRun(i, "increment")
    /\ user_id_counter' = NextId(user_id_counter)
    /\ tasks' = [tasks EXCEPT ![i].pc = "done",
                   ![i].response = Some(register(Some(UserResponse(tasks[i].new_user[1]))))]
    /\ running' = 0
    /\ UNCHANGED <<environ, main_module, security_module, fake_users_db, now, resp,
                   token, genuine>>

\* POST /auth/login, handled in one piece (no await that suspends).
Login(email, password) ==
    /\ AuthReady
    /\ running = 0
    /\ LET user_login == [email |-> email, password |-> password]
           answer == login(fake_users_db, user_login, now)
       IN  /\ resp' = Some([op |-> "login", request |-> user_login, response |-> answer])
           /\ token' = IF answer.status = 200 THEN Some(answer.body.access_token) ELSE token
           /\ genuine' = IF answer.status = 200 THEN TRUE ELSE genuine
    /\ UNCHANGED <<environ, main_module, security_module, fake_users_db,
                   user_id_counter, tasks, running, now>>

\* auth_service.create_user_access_token called on its own.
IssueToken(email) ==
    /\ AuthReady
    /\ running = 0
    /\ LET answer == create_user_access_token(email, now)
       IN  /\ resp' = Some([op |-> "issue", request |-> [user_email |-> email],
                            at |-> now, response |-> answer])
           /\ token' = Some(answer.access_token)
           /\ genuine' = TRUE
    /\ UNCHANGED <<environ, main_module, security_module, fake_users_db,
                   user_id_counter, tasks, running, now>>

\* security.create_access_token called with a payload and an optional lifetime.
CreateAccessToken(data, expires_delta) ==
    /\ AuthReady
    /\ running = 0
    /\ LET result == create_access_token(data, expires_delta, now)
       IN  /\ resp' = Some([op |-> "create_access_token",
                            request |-> [data |-> data, expires_delta |-> expires_delta],
                            at |-> now, response |-> result.token,
                            data_after |-> result.data])
           /\ token' = Some(result.token)
           /\ genuine' = TRUE
    /\ UNCHANGED <<environ, main_module, security_module, fake_users_db,
                   user_id_counter, tasks, running, now>>

\* The clock advances by a minute.
Tick ==
    /\ now < MaxNow
    /\ now' = now + 1
    /\ UNCHANGED <<environ, main_module, security_module, fake_users_db,
                   user_id_counter, tasks, running, resp, token, genuine>>

\* What somebody without the signing key can make of a token string.
Tampered(tok) ==
    {[tok EXCEPT !.claims.sub = e] : e \in Emails \ {tok.claims.sub}}
        \cup {[tok EXCEPT !.claims.exp = @ + 1],
              [tok EXCEPT !.sig = Sign(tok.claims, "forged")],
              [claims |-> tok.claims]}

\* The client alters the token it was given.
Tamper ==
    /\ token # None
    /\ genuine
    /\ \E forged \in Tampered(token[1]) : token' = Some(forged)
    /\ genuine' = FALSE
    /\ UNCHANGED <<environ, main_module, security_module, fake_users_db,
                   user_id_counter, tasks, running, now, resp>>

\* A protected route validates the token the client presents.
VerifyToken ==
    /\ AuthReady
    /\ running = 0
    /\ token # None
    /\ resp' = Some([op |-> "verify", request |-> token[1], at |-> now,
                     response |-> verify(token[1], JWT_SECRET_KEY[1], now)])
    /\ UNCHANGED <<environ, main_module, security_module, fake_users_db,
                   user_id_counter, tasks, running, now, token, genuine>>

Next ==
    \/ StartMain
    \/ ImportSecurity
    \/ \E e \in Emails, p \in Passwords : Submit(e, p)
    \/ \E i \in 1..MaxTasks : RegCheck(i)
    \/ \E i \in 1..MaxTasks : RegHash(i)
    \/ \E i \in 1..MaxTasks : RegInsert(i)
    \/ \E i \in 1..MaxTasks : RegIncrement(i)
    \/ \E e \in Emails, p \in Passwords : Login(e, p)
    \/ \E e \in Emails : IssueToken(e)

\* Registration and login against the directory, at one instant of the clock.
Spec == Init /\ [][Next]_vars

NextToken ==
    \/ StartMain
    \/ ImportSecurity
    \/ \E e \in Emails : IssueToken(e)
    \/ \E e \in Emails, d \in Deltas : CreateAccessToken([sub |-> e], d)
    \/ Tick
    \/ Tamper
    \/ VerifyToken

\* Token issue and validation while the clock runs.
SpecToken == Init /\ [][NextToken]_vars

\* ---------------------------------------------------------------- properties
TaskIds == 1..Len(tasks)

Answered(i, status) ==
    tasks[i].response # None /\ tasks[i].response[1].status = status

Ids(db) == {db[e].id : e \in DOMAIN db}

\* C1: a register call for an email already in the directory is answered 409
\* (register_user returned None) and changes neither the directory nor the
\* counter; the record kept for that email is the one the first successful
\* registration wrote.
C1_DuplicateStep ==
    \A i \in TaskIds :
        (/\ tasks[i].pc = "check"
         /\ tasks'[i].pc # "check"
         /\ tasks[i].email \in DOMAIN fake_users_db)
        => /\ tasks'[i].pc = "done"
           /\ tasks'[i].new_user = None
           /\ tasks'[i].response = Some(Conflict)
           /\ fake_users_db' = fake_users_db
           /\ user_id_counter' = user_id_counter

C1_FirstRecordKept ==
    \A i \in TaskIds :
        Answered(i, 409)
        => /\ tasks[i].email \in DOMAIN fake_users_db
           /\ \E j \in TaskIds \ {i} :
                /\ Answered(j, 201)
                /\ tasks[j].email = tasks[i].email
                /\ tasks[j].new_user = Some(fake_users_db[tasks[i].email])
                /\ tasks[j].response[1].body.id = fake_users_db[tasks[i].email].id

C1_DuplicateRegisterFails == [][C1_DuplicateStep /\ C1_FirstRecordKept']_vars

\* A second register for the same email with another password was answered 409.
C1_Witness ==
    \E i, j \in TaskIds :
        /\ i # j
        /\ tasks[i].email = tasks[j].email
        /\ tasks[i].password # tasks[j].password
        /\ Answered(j, 201)
        /\ Answered(i, 409)

\* C2: among the register requests for one email, in whatever order the event
\* loop serves those in flight together, never two are answered 201; as soon as
\* one of them is answered exactly one of them has got 201 and every other
\* answered one 409; and a record written by a register call stays in the
\* directory as written.
Winners(e) == {i \in TaskIds : tasks[i].email = e /\ Answered(i, 201)}

C2_ExactlyOneWins ==
    /\ \A e \in Emails :
         /\ Cardinality(Winners(e)) <= 1
         /\ \A i \in TaskIds :
              (tasks[i].email = e /\ tasks[i].pc = "done")
              => /\ Cardinality(Winners(e)) = 1
                 /\ i \notin Winners(e) => Answered(i, 409)
    /\ \A i \in TaskIds :
         tasks[i].new_user # None
         => /\ tasks[i].email \in DOMAIN fake_users_db
            /\ fake_users_db[tasks[i].email] = tasks[i].new_user[1]

\* Two requests for one email were pending together; the later one ran first and
\* won, the earlier one was answered 409.
C2_Witness ==
    /\ Len(tasks) >= 2
    /\ tasks[1].email = tasks[2].email
    /\ Answered(2, 201)
    /\ Answered(1, 409)
    /\ tasks[2].response[1].body.id = 1

\* C3: stored ids are pairwise distinct, every newly stored record has an id
\* above all ids stored before it, the counter moves only by one and only in a
\* register call that stored a record, and a register call answered 409 leaves
\* the counter alone.
C3_Step ==
    /\ \A e, f \in DOMAIN fake_users_db' :
         e # f => fake_users_db'[e].id # fake_users_db'[f].id
    /\ \A e \in DOMAIN fake_users_db' \ DOMAIN fake_users_db :
         \A f \in DOMAIN fake_users_db : fake_users_db'[e].id > fake_users_db[f].id
    /\ user_id_counter' # user_id_counter
       => /\ user_id_counter' = user_id_counter + 1
          /\ \E i \in TaskIds :
               /\ tasks[i].new_user # None
               /\ tasks[i].response = None
               /\ tasks'[i].response = Some(Created(UserResponse(tasks[i].new_user[1])))
               /\ tasks[i].new_user[1].id = user_id_counter
    /\ \A i \in TaskIds :
         (tasks[i].response = None /\ tasks'[i].response = Some(Conflict))
         => user_id_counter' = user_id_counter

C3_IdsUniqueIncreasing == [][C3_Step]_vars

\* Two records are stored and the second registration was answered with id 2.
C3_Witness ==
    /\ Cardinality(DOMAIN fake_users_db) >= 2
    /\ \E i \in TaskIds : Answered(i, 201) /\ tasks[i].response[1].body.id = 2
    /\ running = 0

\* C10: the stored ids are exactly 1..n for n stored records, every record sits
\* under the key equal to its email field, and between register calls the
\* counter is n + 1.
C10_StoreShape ==
    LET n == Cardinality(DOMAIN fake_users_db)
    IN  /\ Ids(fake_users_db) = 1..n
        /\ \A e \in DOMAIN fake_users_db : fake_users_db[e].email = e
        /\ running = 0 => user_id_counter = n + 1
        /\ \A i \in TaskIds :
             Answered(i, 201) => tasks[i].response[1].body.id \in 1..n

\* Both emails are registered and no register call is in progress.
C10_Witness ==
    /\ running = 0
    /\ Cardinality(DOMAIN fake_users_db) = 2
    /\ user_id_counter = 3
    /\ resp # None

Credentials == [email : Emails, password : Passwords]

Matches(db, c) ==
    c.email \in DOMAIN db /\ verify_password(c.password, db[c.email].hashed_password)

\* C4: in every directory state, a login for an email that is not registered
\* and a login for a registered email with a password that does not verify get
\* one and the same answer: 401 with the same detail and headers, and no body.
C4_SameRefusal ==
    /\ \A c, d \in Credentials :
         (/\ c.email \notin DOMAIN fake_users_db
          /\ d.email \in DOMAIN fake_users_db
          /\ ~verify_password(d.password, fake_users_db[d.email].hashed_password))
         => /\ login(fake_users_db, c, now) = login(fake_users_db, d, now)
            /\ login(fake_users_db, c, now).status = 401
            /\ DOMAIN login(fake_users_db, c, now) = {"status", "detail", "headers"}
    /\ (resp # None /\ resp[1].op = "login" /\ ~Matches(fake_users_db, resp[1].request))
       => resp[1].response = Unauthorized

\* A wrong-password login for a registered email was just refused while the
\* other email is not registered.
C4_Witness ==
    /\ resp # None
    /\ resp[1].op = "login"
    /\ resp[1].request.email \in DOMAIN fake_users_db
    /\ ~Matches(fake_users_db, resp[1].request)
    /\ resp[1].response.status = 401
    /\ \E e \in Emails : e \notin DOMAIN fake_users_db

\* C5: login answers 200 with a token exactly when the email is registered and
\* the password verifies against the stored hash; that token has subject = the
\* email and type "bearer"; every other login is refused with 401 and no token;
\* and the credentials of a register call answered 201 log in.
C5_LoginIffMatches ==
    /\ \A c \in Credentials :
         LET answer == login(fake_users_db, c, now)
         IN  IF Matches(fake_users_db, c)
             THEN /\ answer.status = 200
                  /\ answer.body.token_type = "bearer"
                  /\ answer.body.access_token.claims.sub = c.email
             ELSE /\ answer = Unauthorized
                  /\ "body" \notin DOMAIN answer
    /\ \A i \in TaskIds :
         Answered(i, 201)
         => login(fake_users_db, [email |-> tasks[i].email,
                                  password |-> tasks[i].password], now).status = 200
    /\ \A c \in Credentials : \A salt \in Salts :
         verify_password(c.password, get_password_hash(c.password, salt))

\* A login with the registered password was answered with a bearer token for
\* that email, while the other password would be refused.
C5_Witness ==
    /\ resp # None
    /\ resp[1].op = "login"
    /\ resp[1].response.status = 200
    /\ resp[1].response.body.access_token.claims.sub = resp[1].request.email
    /\ token = Some(resp[1].response.body.access_token)
    /\ \E p \in Passwords :
         ~Matches(fake_users_db, [email |-> resp[1].request.email, password |-> p])

\* C8: a stored record is never changed or removed by a later step, and a step
\* that answers a login or issues a token leaves the directory and the counter
\* as they were.
C8_Step ==
    /\ \A e \in DOMAIN fake_users_db :
         e \in DOMAIN fake_users_db' /\ fake_users_db'[e] = fake_users_db[e]
    /\ (resp' # resp \/ token' # token)
       => fake_users_db' = fake_users_db /\ user_id_counter' = user_id_counter

C8_IdentityImmutable == [][C8_Step]_vars

\* A record is stored, a duplicate register for it was refused, and a login for
\* it was answered with a token.
C8_Witness ==
    /\ \E i \in TaskIds : Answered(i, 409) /\ tasks[i].email \in DOMAIN fake_users_db
    /\ resp # None
    /\ resp[1].op = "login"
    /\ resp[1].response.status = 200

\* C6: create_access_token embeds the subject unchanged and the expiry
\* now + ttl for every ttl that is supplied, a zero ttl included, and
\* now + ACCESS_TOKEN_EXPIRE_MINUTES only when none is supplied; the caller's
\* payload is as it was.
C6_ExpiryIsNowPlusTtl ==
    (resp # None /\ resp[1].op = "create_access_token")
    => LET call == resp[1]
           ttl == call.request.expires_delta
       IN  /\ call.response.claims.sub = call.request.data.sub
           /\ call.response.claims.exp =
                 IF ttl # None THEN call.at + ttl[1]
                 ELSE call.at + ACCESS_TOKEN_EXPIRE_MINUTES
           /\ call.data_after = call.request.data

Presented == verify(token[1], JWT_SECRET_KEY[1], now)

\* C7: the token the client holds verifies to its subject exactly when it is
\* the issuer's own string and now < its expiry, and to INVALID otherwise
\* (expired, altered or truncated); a token just issued by
\* create_user_access_token, or by create_access_token with no or a positive
\* lifetime, verifies to the subject it was issued for; and a token that is
\* INVALID stays INVALID as the clock advances.
C7_State ==
    token # None
    => /\ IF genuine /\ now < token[1].claims.exp
          THEN Presented = token[1].claims.sub
          ELSE Presented = INVALID
       /\ (/\ genuine
           /\ resp[1].op = "issue"
           /\ resp[1].at = now
           /\ token = Some(resp[1].response.access_token))
          => Presented = resp[1].request.user_email
       /\ (/\ genuine
           /\ resp[1].op = "create_access_token"
           /\ resp[1].at = now
           /\ token = Some(resp[1].response)
           /\ resp[1].request.expires_delta \in {None, Some(1)})
          => Presented = resp[1].request.data.sub

C7_Step ==
    (token # None /\ token' = token /\ Presented = INVALID) => Presented' = INVALID

C7_TokenLifecycle == [][C7_Step /\ C7_State']_vars

\* The issuer's own token, issued a minute ago with a lifetime of one minute,
\* was just presented at its expiry and refused.
C7_Witness ==
    /\ token # None
    /\ genuine
    /\ token[1].claims.exp = now
    /\ resp[1].op = "verify"
    /\ resp[1].request = token[1]
    /\ resp[1].at = now
    /\ resp[1].response = INVALID

\* C9: with the signing secret absent from the environment the process does
\* not come up: app.main is never serving.
C9_NoSecretNoService ==
    environ.JWT_SECRET_KEY = None => main_module # "serving"

====
